---------------------------- MODULE Spec2Model ----------------------------
(***************************************************************************)
(* Model of lib/jsonTree.ts of Json-tree-visualizer: the structural        *)
(* builder (buildStructuredNode), the layout engine (assignPositions),     *)
(* the graph emitter (buildFlowGraph) and the path resolver                *)
(* (tokenizeJsonPath, resolveNodeIdForJsonPath).                           *)
(*                                                                         *)
(* Strings are sequences of one-character strings, so that slicing,        *)
(* trimming, indexOf and concatenation are computed, not assumed.  A JSON  *)
(* value is a record:                                                      *)
(*   [type |-> "primitive", kind |-> ..., text |-> chars]                  *)
(*   [type |-> "array",  items   |-> <<value, ...>>]                       *)
(*   [type |-> "object", entries |-> <<[key |-> chars, val |-> value]>>]   *)
(* with the keys of one object pairwise distinct, in insertion order.      *)
(***************************************************************************)
EXTENDS Integers, Sequences, FiniteSets, TLC

\* ------------------------------------------------------------------ bounds

\* Longest raw path expression that is enumerated character by character.
MaxLen == 3

\* Largest number of JSON values (the root included) in a generated document.
MaxNodes == 3

\* ------------------------------------------------------ program constants

HORIZONTAL_GAP == 200

VERTICAL_GAP == 120

\* ----------------------------------------------------------------- strings

Digits == <<"0", "1", "2", "3", "4", "5", "6", "7", "8", "9">>

IsDigit(c) == \E d \in 1..10 : Digits[d] = c

DigitValue(c) == (CHOOSE d \in 1..10 : Digits[d] = c) - 1

\* The only white space character of the modelled alphabet.
IsSpace(c) == c = " "

RECURSIVE NatToStr(_)
NatToStr(n) == IF n < 10 THEN <<Digits[n + 1]>>
               ELSE NatToStr(n \div 10) \o <<Digits[(n % 10) + 1]>>

\* String(n) for an integer n.
IntToStr(n) == IF n < 0 THEN <<"-">> \o NatToStr(0 - n) ELSE NatToStr(n)

\* s.slice(from, to) with 0-based from (inclusive) and to (exclusive).
Slice(s, from, to) == SubSeq(s, from + 1, to)

\* s.startsWith(p).
StartsWith(s, p) == Len(s) >= Len(p) /\ SubSeq(s, 1, Len(p)) = p

RECURSIVE TrimStart(_)
TrimStart(s) == IF s # <<>> /\ IsSpace(Head(s)) THEN TrimStart(Tail(s)) ELSE s

RECURSIVE TrimEnd(_)
TrimEnd(s) == IF s # <<>> /\ IsSpace(s[Len(s)])
              THEN TrimEnd(SubSeq(s, 1, Len(s) - 1)) ELSE s

\* s.trim().
Trim(s) == TrimEnd(TrimStart(s))

\* s.indexOf(c, from), 0-based, -1 when there is none.
IndexOf(s, c, from) ==
    LET hits == {i \in from..(Len(s) - 1) : s[i + 1] = c}
    IN  IF hits = {} THEN 0 - 1 ELSE CHOOSE i \in hits : \A j \in hits : i <= j

\* Number.parseInt(s, 10): leading white space and one sign are skipped, the
\* longest run of digits is read, and there is no number (NaN) without one.
RECURSIVE DigitRun(_)
DigitRun(s) == IF s # <<>> /\ IsDigit(Head(s))
               THEN <<Head(s)>> \o DigitRun(Tail(s)) ELSE <<>>

RECURSIVE DigitsToNat(_, _)
DigitsToNat(ds, acc) == IF ds = <<>> THEN acc
                        ELSE DigitsToNat(Tail(ds), acc * 10 + DigitValue(Head(ds)))

parseInt(s) ==
    LET t    == TrimStart(s)
        neg  == t # <<>> /\ Head(t) = "-"
        sign == t # <<>> /\ Head(t) \in {"-", "+"}
        body == IF sign THEN Tail(t) ELSE t
        run  == DigitRun(body)
    IN  IF run = <<>> THEN [nan |-> TRUE, n |-> 0]
        ELSE [nan |-> FALSE,
              n   |-> IF neg THEN 0 - DigitsToNat(run, 0) ELSE DigitsToNat(run, 0)]

\* ------------------------------------------------------------- JSON values

JPrim(kind, text) == [type |-> "primitive", kind |-> kind, text |-> text]

JArray(items) == [type |-> "array", items |-> items]

JObject(entries) == [type |-> "object", entries |-> entries]

\* ------------------------------------------------------ structural builder

detectNodeType(value) == value.type

formatPrimitive(value) ==
    IF value.kind = "string" THEN <<"\"">> \o value.text \o <<"\"">>
    ELSE IF value.kind = "null" THEN <<"n", "u", "l", "l">>
    ELSE value.text

ROOT == <<"r", "o", "o", "t">>

DOT_VALUE == <<".", "v", "a", "l", "u", "e">>

RECURSIVE buildStructuredNode(_, _, _, _)
buildStructuredNode(value, key, depth, path) ==
    LET type == detectNodeType(value) IN
    IF type = "object" THEN
        [id       |-> path,
         label    |-> IF key = ROOT THEN <<"{", " ", "}">>
                      ELSE key \o <<" ", "{", " ", "}">>,
         type     |-> type,
         depth    |-> depth,
         children |-> [i \in 1..Len(value.entries) |->
                         buildStructuredNode(value.entries[i].val,
                                             value.entries[i].key,
                                             depth + 1,
                                             path \o <<".">> \o value.entries[i].key)]]
    ELSE IF type = "array" THEN
        [id       |-> path,
         label    |-> IF key = ROOT THEN <<"[", "]">>
                      ELSE IF StartsWith(key, <<"[">>) THEN key
                      ELSE key \o <<" ", "[", "]">>,
         type     |-> type,
         depth    |-> depth,
         children |-> [i \in 1..Len(value.items) |->
                         buildStructuredNode(value.items[i],
                                             <<"[">> \o IntToStr(i - 1) \o <<"]">>,
                                             depth + 1,
                                             path \o <<".">> \o IntToStr(i - 1))]]
    ELSE IF key = ROOT THEN
        [id |-> path, label |-> formatPrimitive(value), type |-> "value",
         depth |-> depth, children |-> <<>>]
    ELSE
        [id       |-> path,
         label    |-> key,
         type     |-> type,
         depth    |-> depth,
         children |-> <<[id       |-> path \o DOT_VALUE,
                         label    |-> formatPrimitive(value),
                         type     |-> "value",
                         depth    |-> depth + 1,
                         children |-> <<>>]>>]

\* ----------------------------------------------------------- layout engine

\* A Map<string, {x, y}> is a function from the ids it holds; set() on an id
\* already present replaces that entry.
EmptyMap == [id \in {} |-> [x |-> 0, y |-> 0]]

MapSet(positions, id, position) == (id :> position) @@ positions

\* The range {min, max} a call of place returns; finite is FALSE for the
\* initial (+Infinity, -Infinity) of the loop over the children.
NoRange == [finite |-> FALSE, min |-> 0, max |-> 0]

\* min = Math.min(min, r.min); max = Math.max(max, r.max).
WidenRange(range, r) ==
    IF ~r.finite THEN range
    ELSE IF ~range.finite THEN r
    ELSE [finite |-> TRUE,
          min    |-> IF r.min < range.min THEN r.min ELSE range.min,
          max    |-> IF r.max > range.max THEN r.max ELSE range.max]

\* The leaf branch of place: the next slot of the shared counter.
placeLeaf(node, st) ==
    LET x == st.leafIndex * HORIZONTAL_GAP
        y == node.depth * VERTICAL_GAP
    IN  [leafIndex |-> st.leafIndex + 1,
         positions |-> MapSet(st.positions, node.id, [x |-> x, y |-> y]),
         range     |-> [finite |-> TRUE, min |-> x, max |-> x]]

RECURSIVE place(_, _)
RECURSIVE placeChildren(_, _, _)
\* for (const child of node.children) { ... }, from child i on; st carries
\* leafIndex, positions and the range folded so far.  The loop's state is
\* read at every round (leafIndex counts up from 0, so the first test never
\* holds): each child is placed before the loop goes on to the next.
placeChildren(children, i, st) ==
    IF st.leafIndex < 0 \/ i > Len(children) THEN st
    ELSE LET r == place(children[i], st)
         IN  placeChildren(children, i + 1,
                           [leafIndex |-> r.leafIndex,
                            positions |-> r.positions,
                            range     |-> WidenRange(st.range, r.range)])

place(node, st) ==
    IF Len(node.children) = 0 THEN placeLeaf(node, st)
    ELSE LET after == placeChildren(node.children, 1,
                                    [leafIndex |-> st.leafIndex,
                                     positions |-> st.positions,
                                     range     |-> NoRange])
         IN  IF ~after.range.finite THEN placeLeaf(node, after)
             ELSE [leafIndex |-> after.leafIndex,
                   positions |-> MapSet(after.positions, node.id,
                                        [x |-> (after.range.min + after.range.max) \div 2,
                                         y |-> node.depth * VERTICAL_GAP]),
                   range     |-> after.range]

\* let leafIndex = 0; place(root): the positions before normalisation.
placeTree(root) == place(root, [leafIndex |-> 0, positions |-> EmptyMap]).positions

\* Math.max in the place of Math.min.
MinX_TakesMax(positions) ==
    IF DOMAIN positions = {} THEN 0
    ELSE LET xs == {positions[id].x : id \in DOMAIN positions}
         IN  CHOOSE m \in xs : \A x \in xs : m >= x

\* Math.min(...allX), 0 for an empty map.
MinX(positions) ==
    IF DOMAIN positions = {} THEN 0
    ELSE LET xs == {positions[id].x : id \in DOMAIN positions}
         IN  CHOOSE m \in xs : \A x \in xs : m <= x

\* The shift of every x by the smallest x.
normalizePositions(positions) ==
    LET minX == MinX(positions)
    IN  IF minX # 0
        THEN [id \in DOMAIN positions |->
                [x |-> positions[id].x - minX, y |-> positions[id].y]]
        ELSE positions

assignPositions(root) == normalizePositions(placeTree(root))

\* ----------------------------------------------------------- graph emitter

NODE_STYLE_TOKENS ==
    [object    |-> [light |-> [background |-> "#DBEAFE", border |-> "#1D4ED8", color |-> "#1E3A8A"],
                    dark  |-> [background |-> "#1E3A8A", border |-> "#3B82F6", color |-> "#DBEAFE"]],
     array     |-> [light |-> [background |-> "#FEF3C7", border |-> "#D97706", color |-> "#7C2D12"],
                    dark  |-> [background |-> "#7C2D12", border |-> "#F59E0B", color |-> "#FFFBEB"]],
     primitive |-> [light |-> [background |-> "#F3E8FF", border |-> "#7C3AED", color |-> "#4C1D95"],
                    dark  |-> [background |-> "#4C1D95", border |-> "#A855F7", color |-> "#F3E8FF"]],
     value     |-> [light |-> [background |-> "#DCFCE7", border |-> "#047857", color |-> "#064E3B"],
                    dark  |-> [background |-> "#064E3B", border |-> "#34D399", color |-> "#ECFDF5"]]]

HIGHLIGHT_STYLE ==
    [light |-> [borderColor |-> "#F97316", glow |-> "rgba(249, 115, 22, 0.28)"],
     dark  |-> [borderColor |-> "#FBBF24", glow |-> "rgba(251, 191, 36, 0.28)"]]

getNodeStyle(type, isDark, isHighlighted) ==
    LET theme            == IF isDark THEN "dark" ELSE "light"
        palette          == NODE_STYLE_TOKENS[type][theme]
        highlightPalette == HIGHLIGHT_STYLE[theme]
    IN  [background  |-> palette.background,
         color       |-> palette.color,
         borderColor |-> IF isHighlighted THEN highlightPalette.borderColor
                         ELSE palette.border,
         borderWidth |-> IF isHighlighted THEN 2 ELSE 1,
         boxShadow   |-> IF isHighlighted THEN "0 0 0 6px " \o highlightPalette.glow
                         ELSE "none",
         zIndex      |-> IF isHighlighted THEN 1 ELSE 0]

\* string | null
NoId == [isNull |-> TRUE]

SomeId(id) == [isNull |-> FALSE, id |-> id]

EDGE_PREFIX == <<"e", "d", "g", "e", "-">>

RECURSIVE visit(_, _, _, _)
RECURSIVE visitChildren(_, _, _, _, _)
\* for (const child of node.children) { edges.push(...); visit(child); } from
\* child i on: what the loop appends to nodes and to edges.
visitChildren(node, i, positions, isDark, highlightNodeId) ==
    IF i > Len(node.children) THEN [nodes |-> <<>>, edges |-> <<>>]
    ELSE LET child == node.children[i]
             edge  == [id     |-> EDGE_PREFIX \o node.id \o <<"-">> \o child.id,
                       source |-> node.id,
                       target |-> child.id]
             below == visit(child, positions, isDark, highlightNodeId)
             rest  == visitChildren(node, i + 1, positions, isDark, highlightNodeId)
         IN  [nodes |-> below.nodes \o rest.nodes,
              edges |-> <<edge>> \o below.edges \o rest.edges]

\* What visit(node) appends to nodes and to edges, in order.
visit(node, positions, isDark, highlightNodeId) ==
    LET position == IF node.id \in DOMAIN positions THEN positions[node.id]
                    ELSE [x |-> 0, y |-> node.depth * VERTICAL_GAP]
        flowNode == [id       |-> node.id,
                     data     |-> [label |-> node.label, type |-> node.type],
                     position |-> position,
                     style    |-> getNodeStyle(node.type, isDark,
                                               highlightNodeId = SomeId(node.id))]
        below    == visitChildren(node, 1, positions, isDark, highlightNodeId)
    IN  [nodes |-> <<flowNode>> \o below.nodes, edges |-> below.edges]

\* The filter and shift of buildFlowGraph when the root is hidden.
hideRoot(root, graph) ==
    [nodes |-> LET kept == SelectSeq(graph.nodes, LAMBDA n : n.id # root.id)
               IN  [i \in 1..Len(kept) |->
                      [kept[i] EXCEPT !.position =
                          [x |-> kept[i].position.x,
                           y |-> kept[i].position.y - VERTICAL_GAP]]],
     edges |-> SelectSeq(graph.edges,
                         LAMBDA e : e.source # root.id /\ e.target # root.id)]

emitGraph(root, positions, isDark, highlightNodeId) ==
    LET all == visit(root, positions, isDark, highlightNodeId)
    IN  IF root.type # "value" THEN hideRoot(root, all) ELSE all

buildFlowGraph(v, isDark, highlightNodeId) ==
    LET root == buildStructuredNode(v, ROOT, 0, ROOT)
    IN  emitGraph(root, assignPositions(root), isDark, highlightNodeId)

\* ----------------------------------------------------------- path resolver

\* string[] | null
NullTokens == [isNull |-> TRUE]

SomeTokens(tokens) == [isNull |-> FALSE, tokens |-> tokens]

\* The bracket branch with the closing quote left on a quoted token.
bracketSegment_KeepsQuote(cursor, index) ==
    LET closeBracketIndex == IndexOf(cursor, "]", index + 1)
        segment           == Trim(Slice(cursor, index + 1, closeBracketIndex))
        number            == IF Head(segment) = "-" THEN Tail(segment) ELSE segment
    IN  IF closeBracketIndex = 0 - 1 THEN [ok |-> FALSE]
        ELSE IF Len(segment) = 0 THEN [ok |-> FALSE]
        ELSE IF segment[1] \in {"'", "\""} /\ segment[Len(segment)] = segment[1]
        THEN [ok    |-> TRUE,
              token |-> Slice(segment, 1, Len(segment)),
              next  |-> closeBracketIndex + 1]
        ELSE IF number # <<>> /\ \A i \in 1..Len(number) : IsDigit(number[i])
        THEN [ok    |-> TRUE,
              token |-> IntToStr(parseInt(segment).n),
              next  |-> closeBracketIndex + 1]
        ELSE [ok |-> FALSE]

\* The bracket branch of the tokenizer's loop, at cursor[index] = "[": the
\* token and the index after "]", or a failure.
bracketSegment(cursor, index) ==
    LET closeBracketIndex == IndexOf(cursor, "]", index + 1)
        segment           == Trim(Slice(cursor, index + 1, closeBracketIndex))
        firstChar         == segment[1]
        lastChar          == segment[Len(segment)]
        number            == IF Head(segment) = "-" THEN Tail(segment) ELSE segment
    IN  IF closeBracketIndex = 0 - 1 THEN [ok |-> FALSE]
        ELSE IF Len(segment) = 0 THEN [ok |-> FALSE]
        ELSE IF firstChar \in {"'", "\""} /\ lastChar = firstChar
        THEN [ok    |-> TRUE,
              token |-> Slice(segment, 1, Len(segment) - 1),
              next  |-> closeBracketIndex + 1]
        ELSE IF number # <<>> /\ \A i \in 1..Len(number) : IsDigit(number[i])
        THEN [ok    |-> TRUE,
              token |-> IntToStr(parseInt(segment).n),
              next  |-> closeBracketIndex + 1]
        ELSE [ok |-> FALSE]

\* The index at which a plain segment that starts at index ends.
RECURSIVE segmentEnd(_, _)
segmentEnd(cursor, index) ==
    IF index < Len(cursor) /\ cursor[index + 1] # "." /\ cursor[index + 1] # "["
    THEN segmentEnd(cursor, index + 1)
    ELSE index

\* while (index < cursor.length) { ... } of tokenizeJsonPath.
RECURSIVE tokenizeFrom(_, _, _)
tokenizeFrom(cursor, index, tokens) ==
    IF index >= Len(cursor) THEN SomeTokens(tokens)
    ELSE IF cursor[index + 1] = "." THEN tokenizeFrom(cursor, index + 1, tokens)
    ELSE IF cursor[index + 1] = "["
    THEN LET b == bracketSegment(cursor, index)
         IN  IF b.ok THEN tokenizeFrom(cursor, b.next, Append(tokens, b.token))
             ELSE NullTokens
    ELSE LET end   == segmentEnd(cursor, index)
             token == Trim(Slice(cursor, index, end))
         IN  IF Len(token) = 0 THEN NullTokens
             ELSE tokenizeFrom(cursor, end, Append(tokens, token))

\* The optional "$" and "$." prefix.
stripPrefix(trimmed) ==
    IF StartsWith(trimmed, <<"$">>)
    THEN IF StartsWith(Tail(trimmed), <<".">>) THEN Tail(Tail(trimmed))
         ELSE Tail(trimmed)
    ELSE trimmed

tokenizeJsonPath(jsonPath) ==
    LET trimmed == Trim(jsonPath)
    IN  IF Len(trimmed) = 0 THEN SomeTokens(<<>>)
        ELSE tokenizeFrom(stripPrefix(trimmed), 0, <<>>)

\* JsonPathResolution | null
NullResolution == [isNull |-> TRUE]

Resolution(nodeId, nodeType) ==
    [isNull |-> FALSE, nodeId |-> nodeId, nodeType |-> nodeType]

\* Object.prototype.hasOwnProperty.call(current, token)
hasOwnProperty(current, token) ==
    \E i \in 1..Len(current.entries) : current.entries[i].key = token

\* current[token] for an own property.
getProperty(current, token) ==
    current.entries[CHOOSE i \in 1..Len(current.entries) :
                      current.entries[i].key = token].val

\* One pass of for (const token of tokens): the value and path after the
\* token, or a failure.
resolveStep(current, currentPath, token) ==
    LET currentType  == detectNodeType(current)
        numericIndex == parseInt(token)
    IN  IF currentType = "array"
        THEN IF numericIndex.nan \/ numericIndex.n < 0 THEN [ok |-> FALSE]
             ELSE IF numericIndex.n >= Len(current.items) THEN [ok |-> FALSE]
             ELSE [ok          |-> TRUE,
                   current     |-> current.items[numericIndex.n + 1],
                   currentPath |-> currentPath \o <<".">> \o IntToStr(numericIndex.n)]
        ELSE IF currentType = "object"
        THEN IF ~hasOwnProperty(current, token) THEN [ok |-> FALSE]
             ELSE [ok          |-> TRUE,
                   current     |-> getProperty(current, token),
                   currentPath |-> currentPath \o <<".">> \o token]
        ELSE [ok |-> FALSE]

\* The loop over the tokens, from token i on.
RECURSIVE walkTokens(_, _, _, _)
walkTokens(current, currentPath, tokens, i) ==
    IF i > Len(tokens)
    THEN [ok |-> TRUE, current |-> current, currentPath |-> currentPath]
    ELSE LET s == resolveStep(current, currentPath, tokens[i])
         IN  IF s.ok THEN walkTokens(s.current, s.currentPath, tokens, i + 1)
             ELSE [ok |-> FALSE]

\* The final rule without the ".value" suffix of a primitive.
resolvedNode_NoValueSuffix(current, currentPath) ==
    LET resolvedType == detectNodeType(current)
    IN  IF resolvedType = "primitive" THEN Resolution(currentPath, "value")
        ELSE Resolution(currentPath, resolvedType)

\* What is returned once every token is consumed.
resolvedNode(current, currentPath) ==
    LET resolvedType == detectNodeType(current)
    IN  IF resolvedType = "primitive"
        THEN Resolution(currentPath \o DOT_VALUE, "value")
        ELSE Resolution(currentPath, resolvedType)

\* What is returned for an expression without tokens.
resolvedRoot(v) ==
    IF detectNodeType(v) = "primitive" THEN Resolution(ROOT, "value")
    ELSE NullResolution

resolveTokens(v, tokens) ==
    IF tokens.isNull THEN NullResolution
    ELSE IF Len(tokens.tokens) = 0 THEN resolvedRoot(v)
    ELSE LET w == walkTokens(v, ROOT, tokens.tokens, 1)
         IN  IF w.ok THEN resolvedNode(w.current, w.currentPath)
             ELSE NullResolution

resolveNodeIdForJsonPath(v, jsonPath) == resolveTokens(v, tokenizeJsonPath(jsonPath))

\* ------------------------------------------------------------------ inputs

\* The characters raw path expressions are made of.
Alphabet == {"a", "1", ".", "[", "]", "'", "-", " ", "$"}

\* Every string over the alphabet of at most MaxLen characters.
RawExpressions == UNION {[1..n -> Alphabet] : n \in 0..MaxLen}

Seven == JPrim("number", <<"7">>)

\* The primitives a document may consist of.
RootPrimitives == {Seven, JPrim("string", <<"s">>), JPrim("null", <<"n", "u", "l", "l">>),
                   JPrim("boolean", <<"t", "r", "u", "e">>)}

\* The values of one JSON value each: a primitive, {} and [].
Leaves == {Seven, JObject(<<>>), JArray(<<>>)}

\* The keys of generated objects; "a.value" is the id suffix of a's value leaf.
Keys == {<<"a">>, <<"b">>, <<"a", ".", "v", "a", "l", "u", "e">>}

\* The sequences of n pairwise distinct keys.
KeySeqs(n) == {ks \in [1..n -> Keys] : \A i, j \in 1..n : ks[i] = ks[j] => i = j}

RECURSIVE DocsOfSize(_)
RECURSIVE Forests(_)
\* The sequences of documents that hold m JSON values in all.
Forests(m) ==
    IF m = 0 THEN {<<>>}
    ELSE UNION {{<<d>> \o f : d \in DocsOfSize(k), f \in Forests(m - k)} : k \in 1..m}

\* The documents that hold exactly n JSON values.
DocsOfSize(n) ==
    IF n = 1 THEN Leaves
    ELSE LET fs == Forests(n - 1)
         IN  {JArray(f) : f \in fs}
             \cup UNION {{JObject([i \in 1..Len(f) |-> [key |-> ks[i], val |-> f[i]]]) :
                            ks \in KeySeqs(Len(f))} : f \in fs}

Documents == RootPrimitives \cup UNION {DocsOfSize(n) : n \in 1..MaxNodes}

\* Keys that a path expression has to quote or cannot express, and the key
\* "root", which buildStructuredNode compares every key with.
SpecialKeys ==
    {<<>>, <<".">>, <<"a", ".", "a">>, <<"[">>, <<"]">>, <<"a", "]">>, <<"'">>, <<"\"">>,
     <<" ", "a">>, <<"a", " ">>, <<"$">>, <<"$", "a">>, <<"1">>, <<"-", "1">>, <<"a", "'", "a">>,
     ROOT}

\* One special key at the top, under a plain key and under an array.
SpecialKeyDocuments ==
    UNION {{JObject(<<[key |-> k, val |-> Seven]>>),
            JObject(<<[key |-> <<"a">>, val |-> JObject(<<[key |-> k, val |-> Seven]>>)]>>),
            JArray(<<JObject(<<[key |-> k, val |-> JArray(<<>>)]>>)>>)} : k \in SpecialKeys}

\* Documents in which the id of a value leaf is also the id of a keyed node
\* below the top level, or of a node that has children.
CollisionDocuments ==
    {JObject(<<[key |-> <<"b">>,
                val |-> JObject(<<[key |-> <<"a">>, val |-> Seven],
                                  [key |-> <<"a">> \o DOT_VALUE, val |-> JObject(<<>>)]>>)]>>),
     JObject(<<[key |-> <<"a">> \o DOT_VALUE,
                val |-> JObject(<<[key |-> <<"b">>, val |-> Seven]>>)],
               [key |-> <<"a">>, val |-> Seven]>>)}

\* The documents raw expressions are resolved against.
ProbeDocuments ==
    {Seven,
     JArray(<<Seven, JArray(<<Seven>>)>>),
     JObject(<<[key |-> <<"a">>, val |-> JObject(<<[key |-> <<"a">>, val |-> Seven]>>)],
               [key |-> <<>>, val |-> Seven]>>),
     JObject(<<[key |-> <<"1">>, val |-> JArray(<<Seven, JArray(<<>>)>>)]>>)}

\* The children of a JSON value, in order.
ChildValues(v) ==
    IF v.type = "object" THEN [i \in 1..Len(v.entries) |-> v.entries[i].val]
    ELSE IF v.type = "array" THEN v.items
    ELSE <<>>

\* The sequences of child positions that lead from v to a value inside it.
RECURSIVE Routes(_)
Routes(v) ==
    {<<>>} \cup UNION {{<<i>> \o r : r \in Routes(ChildValues(v)[i])} :
                         i \in 1..Len(ChildValues(v))}

\* The tokens (object keys and array indices) along a route.
RECURSIVE RouteTokens(_, _)
RouteTokens(v, route) ==
    IF route = <<>> THEN <<>>
    ELSE LET i == Head(route)
             t == IF v.type = "array"
                  THEN [kind |-> "index", text |-> IntToStr(i - 1)]
                  ELSE [kind |-> "key", text |-> v.entries[i].key]
         IN  <<t>> \o RouteTokens(ChildValues(v)[i], Tail(route))

\* The renderings of a token sequence: keys dotted or bracket-quoted (single
\* or double quotes), indices in brackets, with or without the "$" prefix.
Styles == [form : {"dotted", "single", "double"}, prefix : BOOLEAN]

RECURSIVE renderTokens(_, _, _)
renderTokens(toks, style, first) ==
    IF toks = <<>> THEN <<>>
    ELSE LET t == Head(toks)
             q == IF style.form = "single" THEN "'" ELSE "\""
             one == IF t.kind = "index" THEN <<"[">> \o t.text \o <<"]">>
                    ELSE IF style.form = "dotted"
                    THEN (IF first /\ ~style.prefix THEN <<>> ELSE <<".">>) \o t.text
                    ELSE <<"[", q>> \o t.text \o <<q, "]">>
         IN  one \o renderTokens(Tail(toks), style, FALSE)

renderPath(toks, style) ==
    (IF style.prefix THEN <<"$">> ELSE <<>>) \o renderTokens(toks, style, TRUE)

\* What a path expression was made from: raw characters, or a route rendered.
Raw == [kind |-> "raw"]

Rendered(route, style) == [kind |-> "rendered", route |-> route, style |-> style]

\* --------------------------------------------------------------- the shell

\* JSON.parse, for texts without fractions, exponents and string escapes.
\* A result is [ok, value, next]: next is the position after what was read.
IsJsonSpace(c) == c \in {" ", "\n", "\t", "\r"}

RECURSIVE skipSpace(_, _)
skipSpace(s, i) ==
    IF i <= Len(s) /\ IsJsonSpace(s[i]) THEN skipSpace(s, i + 1) ELSE i

ParseFailure == [ok |-> FALSE]

Parsed(value, next) == [ok |-> TRUE, value |-> value, next |-> next]

\* s holds the word w from position i on.
HasWordAt(s, i, w) == i + Len(w) - 1 <= Len(s) /\ SubSeq(s, i, i + Len(w) - 1) = w

TRUE_WORD == <<"t", "r", "u", "e">>

FALSE_WORD == <<"f", "a", "l", "s", "e">>

NULL_WORD == <<"n", "u", "l", "l">>

\* The JavaScript value null.
JsNull == JPrim("null", NULL_WORD)

\* A string literal: the characters up to the next quote.
parseString(s, i) ==
    LET close == IndexOf(s, "\"", i)
    IN  IF i > Len(s) \/ s[i] # "\"" \/ close = 0 - 1 THEN ParseFailure
        ELSE Parsed(SubSeq(s, i + 1, close), close + 2)

\* An integer literal: an optional "-", then "0" or digits that do not start
\* with "0".  The value -0 prints as "0".
parseNumber(s, i) ==
    LET from   == IF i <= Len(s) /\ s[i] = "-" THEN i + 1 ELSE i
        digits == DigitRun(SubSeq(s, from, Len(s)))
        n      == DigitsToNat(digits, 0)
    IN  IF digits = <<>> \/ (Len(digits) > 1 /\ digits[1] = "0") THEN ParseFailure
        ELSE Parsed(JPrim("number", IntToStr(IF from > i THEN 0 - n ELSE n)),
                    from + Len(digits))

\* A key that is an array index: object keys of this form come first, in
\* ascending order, when the entries of an object are listed.
IsArrayIndex(key) ==
    /\ key # <<>>
    /\ \A i \in 1..Len(key) : IsDigit(key[i])
    /\ (Len(key) > 1 => key[1] # "0")

\* The entries of an object after the property key is given the value val.
setProperty(entries, key, val) ==
    LET same  == {j \in 1..Len(entries) : entries[j].key = key}
        entry == [key |-> key, val |-> val]
        later == {j \in 1..Len(entries) :
                    \/ ~IsArrayIndex(entries[j].key)
                    \/ DigitsToNat(entries[j].key, 0) > DigitsToNat(key, 0)}
    IN  IF same # {}
        THEN [j \in 1..Len(entries) |-> IF j \in same THEN entry ELSE entries[j]]
        ELSE IF IsArrayIndex(key) /\ later # {}
        THEN LET at == CHOOSE j \in later : \A k \in later : j <= k
             IN  SubSeq(entries, 1, at - 1) \o <<entry>> \o SubSeq(entries, at, Len(entries))
        ELSE Append(entries, entry)

RECURSIVE parseValue(_, _)
RECURSIVE parseElements(_, _, _)
RECURSIVE parseMembers(_, _, _)
\* The elements of an array from position i on, after "[" or ",".
parseElements(s, i, items) ==
    LET element == parseValue(s, skipSpace(s, i))
        after   == skipSpace(s, element.next)
    IN  IF ~element.ok \/ after > Len(s) THEN ParseFailure
        ELSE IF s[after] = "," THEN parseElements(s, after + 1, Append(items, element.value))
        ELSE IF s[after] = "]" THEN Parsed(JArray(Append(items, element.value)), after + 1)
        ELSE ParseFailure

\* The members of an object from position i on, after "{" or ",".
parseMembers(s, i, entries) ==
    LET key   == parseString(s, skipSpace(s, i))
        colon == skipSpace(s, key.next)
    IN  IF ~key.ok \/ colon > Len(s) \/ s[colon] # ":" THEN ParseFailure
        ELSE LET member == parseValue(s, skipSpace(s, colon + 1))
                 after  == skipSpace(s, member.next)
                 now    == setProperty(entries, key.value, member.value)
             IN  IF ~member.ok \/ after > Len(s) THEN ParseFailure
                 ELSE IF s[after] = "," THEN parseMembers(s, after + 1, now)
                 ELSE IF s[after] = "}" THEN Parsed(JObject(now), after + 1)
                 ELSE ParseFailure

parseValue(s, i) ==
    IF i > Len(s) THEN ParseFailure
    ELSE IF s[i] = "{"
    THEN IF skipSpace(s, i + 1) <= Len(s) /\ s[skipSpace(s, i + 1)] = "}"
         THEN Parsed(JObject(<<>>), skipSpace(s, i + 1) + 1)
         ELSE parseMembers(s, i + 1, <<>>)
    ELSE IF s[i] = "["
    THEN IF skipSpace(s, i + 1) <= Len(s) /\ s[skipSpace(s, i + 1)] = "]"
         THEN Parsed(JArray(<<>>), skipSpace(s, i + 1) + 1)
         ELSE parseElements(s, i + 1, <<>>)
    ELSE IF s[i] = "\""
    THEN LET str == parseString(s, i)
         IN  IF str.ok THEN Parsed(JPrim("string", str.value), str.next) ELSE ParseFailure
    ELSE IF HasWordAt(s, i, TRUE_WORD) THEN Parsed(JPrim("boolean", TRUE_WORD), i + 4)
    ELSE IF HasWordAt(s, i, FALSE_WORD) THEN Parsed(JPrim("boolean", FALSE_WORD), i + 5)
    ELSE IF HasWordAt(s, i, NULL_WORD) THEN Parsed(JsNull, i + 4)
    ELSE parseNumber(s, i)

\* JSON.parse(text): one value with white space around it, or a SyntaxError.
JSONparse(text) ==
    LET r == parseValue(text, skipSpace(text, 1))
    IN  IF r.ok /\ skipSpace(text, r.next) = Len(text) + 1 THEN r ELSE ParseFailure

\* !value: the JavaScript values that count as false.
Falsy(v) ==
    /\ v.type = "primitive"
    /\ \/ v.kind = "null"
       \/ v.kind = "boolean" /\ v.text = FALSE_WORD
       \/ v.kind = "number" /\ v.text = <<"0">>
       \/ v.kind = "string" /\ v.text = <<>>

SAMPLE_JSON ==
    <<"{", "\n", " ", " ", "\"", "i", "d", "\"", ":", " ", "1", ",", "\n",
      " ", " ", "\"", "t", "i", "t", "l", "e", "\"", ":", " ", "\"", "S",
      "a", "m", "p", "l", "e", " ", "t", "o", "d", "o", "\"", ",", "\n", " ",
      " ", "\"", "c", "o", "m", "p", "l", "e", "t", "e", "d", "\"", ":", " ",
      "f", "a", "l", "s", "e", ",", "\n", " ", " ", "\"", "t", "a", "g", "s",
      "\"", ":", " ", "[", "\"", "j", "s", "o", "n", "\"", ",", " ", "\"",
      "t", "r", "e", "e", "\"", "]", "\n", "}">>

\* The texts typed into the JSON input.
JsonTexts ==
    {SAMPLE_JSON,
     <<"0">>,
     <<"f", "a", "l", "s", "e">>,
     <<"n", "u", "l", "l">>,
     <<"\"", "\"">>,
     <<"7">>,
     <<"-", "0">>,
     <<"{", "\"", "r", "o", "o", "t", "\"", ":", "7", "}">>,
     <<"{", "\"", "a", "\"", ":", "7", ",", "\"", "a", ".", "v", "a", "l", "u", "e", "\"", ":", "{", "}", "}">>,
     <<"[", "7", ",", "[", "]", "]">>,
     <<" ", "{", "\"", "a", "\"", ":", "7", ",", "\"", "a", "\"", ":", "[", "]", "}", " ">>,
     <<"{">>,
     <<>>,
     <<"[", "7", ",", "]">>}

\* The texts typed into the search input.
SearchQueries ==
    {<<>>, <<" ">>, <<"a">>, <<"$">>, <<"r", "o", "o", "t">>, <<"[", "0", "]">>,
     <<"t", "a", "g", "s", "[", "1", "]">>, <<"i", "d">>, <<"b">>}

\* string | null
NoText == [isNull |-> TRUE]

SomeText(text) == [isNull |-> FALSE, text |-> text]

\* ----------------------------------------------------------- state machine

VARIABLES
    value,            \* the parsed JSON document
    jsonPath,         \* the path expression
    origin,           \* how jsonPath was made
    highlightNodeId,  \* the id handed to buildFlowGraph
    isDark,           \* the theme handed to buildFlowGraph
    resolved,         \* resolveNodeIdForJsonPath has returned
    tokens,           \* what tokenizeJsonPath returned in it
    resolution,       \* what it returned
    built,            \* buildFlowGraph has returned
    root,             \* the tree buildStructuredNode returned in it
    placed,           \* the positions after place(root)
    positions,        \* what assignPositions returned
    graph,            \* what buildFlowGraph returned
    theme,            \* the shell's theme, "light" or "dark"
    jsonText,         \* the text of the JSON input
    parseError,       \* the message of the last failed parse, or null
    parsedJson,       \* the document of the shell
    parsedPreview,    \* the preview of the document, or null
    searchQuery,      \* the text of the search input
    searchResult      \* "idle", "match", "no-match" or "no-tree"

vars == <<value, jsonPath, origin, highlightNodeId, isDark, resolved, tokens,
          resolution, built, root, placed, positions, graph, theme, jsonText,
          parseError, parsedJson, parsedPreview, searchQuery, searchResult>>

inputs == <<value, jsonPath, origin>>

resolverResults == <<resolved, tokens, resolution>>

builderResults == <<built, isDark, root, placed, positions, graph>>

shellState == <<theme, jsonText, parseError, parsedJson, parsedPreview, searchQuery,
                searchResult>>

EmptyGraph == [nodes |-> <<>>, edges |-> <<>>]

NoTree == [id |-> <<>>, label |-> <<>>, type |-> "value", depth |-> 0, children |-> <<>>]

\* The useState initialisers of the shell.
ShellConstructed ==
    /\ theme = "light"
    /\ jsonText = SAMPLE_JSON
    /\ parseError = NoText
    /\ parsedJson = (IF JSONparse(SAMPLE_JSON).ok THEN JSONparse(SAMPLE_JSON).value
                     ELSE JsNull)
    /\ parsedPreview = (IF JSONparse(SAMPLE_JSON).ok
                        THEN SomeText(JSONparse(SAMPLE_JSON).value) ELSE NoText)
    /\ highlightNodeId = NoId
    /\ searchQuery = <<>>
    /\ searchResult = "idle"

Init ==
    /\ ShellConstructed
    /\ \/ /\ value \in Documents \cup SpecialKeyDocuments \cup CollisionDocuments
          /\ \E r \in Routes(value), s \in Styles :
                /\ origin = Rendered(r, s)
                /\ jsonPath = renderPath(RouteTokens(value, r), s)
       \/ /\ value \in ProbeDocuments
          /\ jsonPath \in RawExpressions
          /\ origin = Raw
    /\ isDark = FALSE
    /\ resolved = FALSE
    /\ tokens = NullTokens
    /\ resolution = NullResolution
    /\ built = FALSE
    /\ root = NoTree
    /\ placed = EmptyMap
    /\ positions = EmptyMap
    /\ graph = EmptyGraph

\* A call resolveNodeIdForJsonPath(value, jsonPath).
Resolve ==
    /\ ~resolved
    /\ resolved' = TRUE
    /\ tokens' = tokenizeJsonPath(jsonPath)
    /\ resolution' = resolveNodeIdForJsonPath(value, jsonPath)
    /\ UNCHANGED <<inputs, highlightNodeId, builderResults, shellState>>

\* The id of a match becomes the id to highlight.
Highlight ==
    /\ resolved
    /\ ~built
    /\ ~resolution.isNull
    /\ highlightNodeId = NoId
    /\ highlightNodeId' = SomeId(resolution.nodeId)
    /\ UNCHANGED <<inputs, resolverResults, builderResults, shellState>>

\* A call buildFlowGraph(value, dark, highlightNodeId).
Build ==
    /\ ~built
    /\ built' = TRUE
    /\ \E dark \in BOOLEAN :
          /\ isDark' = dark
          /\ graph' = buildFlowGraph(value, dark, highlightNodeId)
    /\ root' = buildStructuredNode(value, ROOT, 0, ROOT)
    /\ placed' = placeTree(root')
    /\ positions' = assignPositions(root')
    /\ UNCHANGED <<inputs, highlightNodeId, resolverResults, shellState>>

Next == Resolve \/ Highlight \/ Build

Spec == Init /\ [][Next]_vars

\* ----------------------------------------------------- the shell's events

\* const isDark = theme === "dark"
themeIsDark == theme = "dark"

\* The graph the shell displays: the useMemo over parsedJson, isDark and
\* highlightNodeId.
shownGraph ==
    IF Falsy(parsedJson) THEN EmptyGraph
    ELSE buildFlowGraph(parsedJson, themeIsDark, highlightNodeId)

\* The shell alone: the library is called inside its handlers.
ShellInit ==
    /\ ShellConstructed
    /\ value = Seven
    /\ jsonPath = <<>>
    /\ origin = Raw
    /\ isDark = FALSE
    /\ resolved = FALSE
    /\ tokens = NullTokens
    /\ resolution = NullResolution
    /\ built = FALSE
    /\ root = NoTree
    /\ placed = EmptyMap
    /\ positions = EmptyMap
    /\ graph = EmptyGraph

library == <<inputs, resolverResults, builderResults>>

\* Submit of the JSON form.  The preview is JSON.stringify of the value; its
\* characters are not modelled, nothing reads them back.
handleSubmit ==
    /\ LET r == JSONparse(jsonText)
       IN  IF r.ok
           THEN /\ parsedJson' = r.value
                /\ parsedPreview' = SomeText(r.value)
                /\ parseError' = NoText
                /\ highlightNodeId' = NoId
                /\ searchResult' = "idle"
           ELSE /\ parsedJson' = JsNull
                /\ parsedPreview' = NoText
                /\ parseError' = SomeText("SyntaxError")
                /\ highlightNodeId' = NoId
                /\ searchResult' = "no-tree"
    /\ UNCHANGED <<theme, jsonText, searchQuery, library>>

\* An edit of the JSON input.
handleJsonChange ==
    /\ \E text \in JsonTexts : jsonText' = text
    /\ UNCHANGED <<theme, parseError, parsedJson, parsedPreview, highlightNodeId,
                   searchQuery, searchResult, library>>

\* An edit of the search input.
handleSearchInputChange ==
    /\ \E query \in SearchQueries :
          /\ searchQuery' = query
          /\ IF Trim(query) = <<>>
             THEN highlightNodeId' = NoId /\ searchResult' = "idle"
             ELSE UNCHANGED <<highlightNodeId, searchResult>>
    /\ UNCHANGED <<theme, jsonText, parseError, parsedJson, parsedPreview, library>>

\* Submit of the search form.
handleSearchSubmit ==
    /\ LET trimmed == Trim(searchQuery)
       IN  IF trimmed = <<>>
           THEN highlightNodeId' = NoId /\ searchResult' = "idle"
           ELSE IF Falsy(parsedJson)
           THEN highlightNodeId' = NoId /\ searchResult' = "no-tree"
           ELSE LET found == resolveNodeIdForJsonPath(parsedJson, trimmed)
                IN  IF found.isNull
                    THEN highlightNodeId' = NoId /\ searchResult' = "no-match"
                    ELSE /\ highlightNodeId' = SomeId(found.nodeId)
                         /\ searchResult' = "match"
    /\ UNCHANGED <<theme, jsonText, parseError, parsedJson, parsedPreview, searchQuery,
                   library>>

\* A click on the theme toggle.
onToggle ==
    /\ theme' = (IF themeIsDark THEN "light" ELSE "dark")
    /\ UNCHANGED <<jsonText, parseError, parsedJson, parsedPreview, highlightNodeId,
                   searchQuery, searchResult, library>>

ShellNext ==
    \/ handleSubmit
    \/ handleJsonChange
    \/ handleSearchInputChange
    \/ handleSearchSubmit
    \/ onToggle

ShellSpec == ShellInit /\ [][ShellNext]_vars

\* ------------------------------------------------------------------ claims

\* The nodes of a built tree in the order visit meets them.
RECURSIVE Preorder(_)
RECURSIVE PreorderAll(_, _)
PreorderAll(children, i) ==
    IF i > Len(children) THEN <<>>
    ELSE Preorder(children[i]) \o PreorderAll(children, i + 1)

Preorder(node) == <<node>> \o PreorderAll(node.children, 1)

\* The childless nodes of a built tree, depth first and left to right.
LeavesOf(node) == SelectSeq(Preorder(node), LAMBDA n : Len(n.children) = 0)

IsContainer(v) == v.type \in {"object", "array"}

\* C1: root elision.  For a document whose top level is an object or an
\* array the graph holds no node "root" and no edge from or to "root", every
\* emitted node has y = (depth - 1) * VERTICAL_GAP, and the smallest y is 0
\* when a node is emitted; for a bare primitive the graph is the one node
\* "root" and no edge.
C1_RootElision ==
    built =>
      IF IsContainer(value)
      THEN LET emitted == Tail(Preorder(root))
           IN  /\ \A i \in 1..Len(graph.nodes) : graph.nodes[i].id # ROOT
               /\ \A i \in 1..Len(graph.edges) :
                     graph.edges[i].source # ROOT /\ graph.edges[i].target # ROOT
               /\ Len(graph.nodes) = Len(emitted)
               /\ \A i \in 1..Len(graph.nodes) :
                     graph.nodes[i].position.y = (emitted[i].depth - 1) * VERTICAL_GAP
               /\ graph.nodes # <<>> =>
                     /\ \E i \in 1..Len(graph.nodes) : graph.nodes[i].position.y = 0
                     /\ \A i \in 1..Len(graph.nodes) : graph.nodes[i].position.y >= 0
      ELSE /\ Len(graph.nodes) = 1
           /\ graph.nodes[1].id = ROOT
           /\ graph.edges = <<>>

\* The node of the built tree that a route of child positions leads to.
RECURSIVE NodeAt(_, _)
NodeAt(node, route) ==
    IF route = <<>> THEN node ELSE NodeAt(node.children[Head(route)], Tail(route))

\* The id buildStructuredNode gave to the node that shows the value at a
\* route: the ".value" leaf of a keyed primitive, the node itself otherwise.
BuiltIdAt(v, route) ==
    LET node == NodeAt(buildStructuredNode(v, ROOT, 0, ROOT), route)
    IN  IF node.type = "primitive" THEN node.children[1].id ELSE node.id

Contains(s, c) == \E i \in 1..Len(s) : s[i] = c

\* The keys among the tokens of a route.
RouteKeys(v, route) ==
    LET toks == RouteTokens(v, route)
    IN  {toks[i].text : i \in {j \in 1..Len(toks) : toks[j].kind = "key"}}

\* A route that reaches a value inside the document: a non-empty one, or the
\* empty one of a document that is a bare primitive.
ReachesInside(v, route) == route # <<>> \/ ~IsContainer(v)

RECURSIVE ValueAt(_, _)
ValueAt(v, route) ==
    IF route = <<>> THEN v ELSE ValueAt(ChildValues(v)[Head(route)], Tail(route))

\* The routes and renderings the tokenizer reads back as the same tokens and
\* the resolver names as the builder does.
Expressible(v, route, style) ==
    LET toks == RouteTokens(v, route)
        keys == RouteKeys(v, route)
    IN  /\ ReachesInside(v, route)
        /\ (toks # <<>> /\ toks[Len(toks)].kind = "key" /\ toks[Len(toks)].text = ROOT)
              => IsContainer(ValueAt(v, route))
        /\ style.form # "dotted" => \A k \in keys : ~Contains(k, "]")
        /\ style.form = "dotted" =>
              /\ \A k \in keys : /\ k # <<>>
                                 /\ ~Contains(k, ".")
                                 /\ ~Contains(k, "[")
                                 /\ Trim(k) = k
              /\ (~style.prefix /\ toks # <<>> /\ toks[1].kind = "key")
                    => ~StartsWith(toks[1].text, <<"$">>)

C3_UniqueIds ==
    built =>
      LET nodes == Preorder(root)
      IN  /\ \A i, j \in 1..Len(nodes) : nodes[i].id = nodes[j].id => i = j
          /\ Cardinality(DOMAIN positions) = Len(nodes)

\* C4: the final id rule.  Without tokens the result is root/value exactly
\* for a primitive document and null otherwise; with every token consumed at
\* value c and path P it is P.value/value for a primitive c and P with c's
\* type for a container.
C4_FinalIdRule ==
    (resolved /\ ~tokens.isNull) =>
      IF tokens.tokens = <<>>
      THEN /\ ~IsContainer(value) => resolution = Resolution(ROOT, "value")
           /\ IsContainer(value) => resolution.isNull
      ELSE /\ LET w == walkTokens(value, ROOT, tokens.tokens, 1)
              IN  w.ok => /\ ~resolution.isNull
                          /\ resolution.nodeId =
                                IF IsContainer(w.current) THEN w.currentPath
                                ELSE w.currentPath \o DOT_VALUE
                          /\ resolution.nodeType =
                                IF IsContainer(w.current) THEN w.current.type
                                ELSE "value"
           /\ (~resolution.isNull /\ IsContainer(value)) => resolution.nodeId # ROOT

\* C4 witness: tokens were consumed down to a primitive.
C4_Witness ==
    /\ resolved
    /\ ~tokens.isNull
    /\ Len(tokens.tokens) = 2
    /\ ~resolution.isNull
    /\ resolution.nodeType = "value"

\* A token that is the decimal text of a non-negative integer.
IsNatText(token) == token # <<>> /\ \A i \in 1..Len(token) : IsDigit(token[i])

\* The walk C5 describes: on an array the token is a non-negative integer
\* below the length, on an object an own property, on a primitive nothing.
RECURSIVE StrictWalk(_, _, _, _)
StrictWalk(current, path, toks, i) ==
    IF i > Len(toks) THEN [ok |-> TRUE, path |-> path]
    ELSE IF current.type = "array"
    THEN IF IsNatText(toks[i]) /\ DigitsToNat(toks[i], 0) < Len(current.items)
         THEN StrictWalk(current.items[DigitsToNat(toks[i], 0) + 1],
                         path \o <<".">> \o IntToStr(DigitsToNat(toks[i], 0)), toks, i + 1)
         ELSE [ok |-> FALSE]
    ELSE IF current.type = "object"
    THEN IF \E e \in 1..Len(current.entries) : current.entries[e].key = toks[i]
         THEN StrictWalk(current.entries[CHOOSE e \in 1..Len(current.entries) :
                                           current.entries[e].key = toks[i]].val,
                         path \o <<".">> \o toks[i], toks, i + 1)
         ELSE [ok |-> FALSE]
    ELSE [ok |-> FALSE]

\* C5: the resolution step rule.  The result is null exactly when some token
\* does not select a child (on an array: is not a non-negative integer below
\* the length; on an object: names no own property; on a primitive: any
\* token), and otherwise the path is "root" with ".<index>" or ".<key>"
\* appended per token.
C5_StepRule ==
    (resolved /\ ~tokens.isNull /\ tokens.tokens # <<>>) =>
      LET w == StrictWalk(value, ROOT, tokens.tokens, 1)
      IN  /\ resolution.isNull <=> ~w.ok
          /\ w.ok => resolution.nodeId \in {w.path, w.path \o DOT_VALUE}

\* The bracket segments of an expression, in order: each "[" outside a
\* bracket segment opens one that runs to the next "]".
RECURSIVE BracketSegments(_, _)
BracketSegments(s, index) ==
    IF index >= Len(s) THEN <<>>
    ELSE IF s[index + 1] = "["
    THEN LET close == IndexOf(s, "]", index + 1)
         IN  IF close = 0 - 1 THEN <<[closed |-> FALSE, content |-> <<>>]>>
             ELSE <<[closed |-> TRUE, content |-> Trim(Slice(s, index + 1, close))]>>
                  \o BracketSegments(s, close + 1)
    ELSE BracketSegments(s, index + 1)

IsQuotedLiteral(c) == Len(c) >= 2 /\ c[1] \in {"'", "\""} /\ c[Len(c)] = c[1]

IsIntegerText(c) == c # <<>> /\ IsNatText(IF c[1] = "-" THEN Tail(c) ELSE c)

\* The canonical decimal text of an integer text.
CanonicalInteger(c) ==
    LET n == DigitsToNat(IF c[1] = "-" THEN Tail(c) ELSE c, 0)
    IN  IF c[1] = "-" /\ n # 0 THEN <<"-">> \o NatToStr(n) ELSE NatToStr(n)

\* C6: bracket segments.  An unterminated "[" and a segment that is neither
\* a quoted literal nor an integer make the tokenizer and the resolver return
\* null; an expression that is one quoted segment yields its content without
\* the quotes, one that is an integer segment the canonical decimal text, a
\* negative one being rejected by the resolution.
C6_BracketSegments ==
    resolved =>
      LET segs == BracketSegments(jsonPath, 0)
          bad  == \E i \in 1..Len(segs) :
                     \/ ~segs[i].closed
                     \/ ~IsQuotedLiteral(segs[i].content) /\ ~IsIntegerText(segs[i].content)
          one  == /\ Len(segs) = 1
                  /\ jsonPath[1] = "["
                  /\ IndexOf(jsonPath, "]", 1) = Len(jsonPath) - 1
          c    == segs[1].content
      IN  /\ bad => tokens.isNull /\ resolution.isNull
          /\ (~bad /\ one) =>
                /\ ~tokens.isNull
                /\ tokens.tokens =
                      <<IF IsQuotedLiteral(c) THEN SubSeq(c, 2, Len(c) - 1)
                        ELSE CanonicalInteger(c)>>
                /\ (IsIntegerText(c) /\ c[1] = "-") => resolution.isNull

\* A "." outside the bracket segments that is followed by another "." or by
\* nothing.
RECURSIVE HasEmptySegment(_, _)
HasEmptySegment(s, index) ==
    IF index >= Len(s) THEN FALSE
    ELSE IF s[index + 1] = "["
    THEN LET close == IndexOf(s, "]", index + 1)
         IN  IF close = 0 - 1 THEN FALSE ELSE HasEmptySegment(s, close + 1)
    ELSE IF s[index + 1] = "."
    THEN \/ index + 1 = Len(s)
         \/ s[index + 2] = "."
         \/ HasEmptySegment(s, index + 1)
    ELSE HasEmptySegment(s, index + 1)

\* C7: empty dotted segments fail.  An expression with "." next to "." or
\* with a dangling "." (after the "$" or "$." prefix) makes the tokenizer and
\* the resolver return null.
C7_EmptySegments ==
    (resolved /\ HasEmptySegment(stripPrefix(Trim(jsonPath)), 0)) =>
      tokens.isNull /\ resolution.isNull

\* C9: leaf spacing.  The k-th childless node (k from 0) in depth-first
\* left-to-right order has x = k * HORIZONTAL_GAP and every node has
\* y = depth * VERTICAL_GAP.
C9_LeafSpacing ==
    built =>
      LET nodes  == Preorder(root)
          leaves == LeavesOf(root)
      IN  /\ \A k \in 1..Len(leaves) :
                positions[leaves[k].id].x = (k - 1) * HORIZONTAL_GAP
          /\ \A i \in 1..Len(nodes) :
                positions[nodes[i].id].y = nodes[i].depth * VERTICAL_GAP

\* C10: the normalised layout.  The positions assignPositions returns have
\* smallest x exactly 0, no negative x, and the y that place gave.
C10_NormalisedLayout ==
    built =>
      /\ DOMAIN positions = DOMAIN placed
      /\ \E id \in DOMAIN positions : positions[id].x = 0
      /\ \A id \in DOMAIN positions :
            /\ positions[id].x >= 0
            /\ positions[id].y = placed[id].y

\* C10 witness: place left no node at x = 0, so the normalisation shifted.
C10_Witness ==
    /\ built
    /\ \A id \in DOMAIN placed : placed[id].x > 0
    /\ \E id \in DOMAIN positions : positions[id].x = 0

\* The number of nodes C11 gives the tree of a value: one per object, array
\* and primitive, and one more per primitive that is not the root.
RECURSIVE ClaimedNodeCount(_, _)
RECURSIVE ClaimedNodeCountAll(_, _)
ClaimedNodeCountAll(vs, i) ==
    IF i > Len(vs) THEN 0
    ELSE ClaimedNodeCount(vs[i], FALSE) + ClaimedNodeCountAll(vs, i + 1)

ClaimedNodeCount(v, isRootValue) ==
    IF IsContainer(v) THEN 1 + ClaimedNodeCountAll(ChildValues(v), 1)
    ELSE IF isRootValue THEN 1 ELSE 2

\* The shape C11 gives the node of a value: a container node has one child
\* per entry or element, a primitive that is not the root has one child, of
\* kind value, with id "<path>.value" and depth one greater.
RECURSIVE BuiltAsClaimed(_, _, _)
BuiltAsClaimed(v, node, isRootValue) ==
    IF IsContainer(v)
    THEN /\ node.type = v.type
         /\ Len(node.children) = Len(ChildValues(v))
         /\ \A i \in 1..Len(ChildValues(v)) :
               BuiltAsClaimed(ChildValues(v)[i], node.children[i], FALSE)
    ELSE IF isRootValue THEN node.children = <<>>
    ELSE /\ node.type = "primitive"
         /\ Len(node.children) = 1
         /\ node.children[1].type = "value"
         /\ node.children[1].id = node.id \o DOT_VALUE
         /\ node.children[1].depth = node.depth + 1
         /\ node.children[1].children = <<>>

\* C11: the node count of the built tree.  The tree has one node per object,
\* array and primitive and one more per primitive that is not the root; a
\* container node has as many children as entries or elements, and a
\* primitive that is not the root has exactly one child, of kind value, with
\* id "<path>.value" and depth one greater.
C11_NodeCount ==
    built =>
      /\ Len(Preorder(root)) = ClaimedNodeCount(value, TRUE)
      /\ BuiltAsClaimed(value, root, TRUE)

\* The parent-child relations of a tree, as <<parent id, child id>>, in the
\* order visit meets them.
RECURSIVE Relations(_)
RECURSIVE RelationsAll(_, _)
RelationsAll(node, i) ==
    IF i > Len(node.children) THEN <<>>
    ELSE <<[source |-> node.id, target |-> node.children[i].id]>>
         \o Relations(node.children[i]) \o RelationsAll(node, i + 1)

Relations(node) == RelationsAll(node, 1)

\* C12: the edges of the emitted graph.  There is one edge per parent-child
\* relation of the tree that does not touch an elided root, every edge has
\* its source and its target among the emitted node ids, and every emitted
\* node that is not at the top level is the target of exactly one edge.
C12_Edges ==
    built =>
      LET hidden  == root.type # "value"
          kept    == SelectSeq(Relations(root),
                               LAMBDA r : ~hidden \/ (r.source # ROOT /\ r.target # ROOT))
          emitted == IF hidden THEN Tail(Preorder(root)) ELSE Preorder(root)
          top     == IF hidden THEN 1 ELSE 0
          ids     == {graph.nodes[i].id : i \in 1..Len(graph.nodes)}
      IN  /\ Len(graph.edges) = Len(kept)
          /\ \A i \in 1..Len(kept) :
                /\ graph.edges[i].source = kept[i].source
                /\ graph.edges[i].target = kept[i].target
          /\ \A i \in 1..Len(graph.edges) :
                graph.edges[i].source \in ids /\ graph.edges[i].target \in ids
          /\ Len(graph.nodes) = Len(emitted)
          /\ \A i \in 1..Len(graph.nodes) :
                emitted[i].depth > top =>
                  Cardinality({j \in 1..Len(graph.edges) :
                                 graph.edges[j].target = graph.nodes[i].id}) = 1

\* C13: the leaf-kind invariant.  Every node of the built tree without
\* children has kind primitive or value.
C13_LeafKind ==
    built =>
      \A i \in 1..Len(Preorder(root)) :
         Preorder(root)[i].children = <<>> =>
            Preorder(root)[i].type \in {"primitive", "value"}

\* The loop of place over the children of a node leaves min and max
\* non-finite: the defensive branch is taken.
DefensiveBranchTaken(node) ==
    /\ Len(node.children) > 0
    /\ ~placeChildren(node.children, 1,
                      [leafIndex |-> 0, positions |-> EmptyMap, range |-> NoRange]).range.finite

\* C14: internal-node placement.  A node with children has x = (min + max) / 2
\* for the smallest and largest x of the leaves of its subtree, so its x
\* lies between them, and the defensive branch is never taken.
C14_InternalPlacement ==
    built =>
      \A i \in 1..Len(Preorder(root)) :
         LET node == Preorder(root)[i]
             xs   == {positions[LeavesOf(node)[k].id].x : k \in 1..Len(LeavesOf(node))}
             min  == CHOOSE m \in xs : \A x \in xs : m <= x
             max  == CHOOSE m \in xs : \A x \in xs : m >= x
         IN  Len(node.children) > 0 =>
               /\ ~DefensiveBranchTaken(node)
               /\ 2 * positions[node.id].x = min + max
               /\ min <= positions[node.id].x
               /\ positions[node.id].x <= max

\* C15: resolver soundness against the emitted graph.  When the resolver
\* returns {nodeId, nodeType} and the graph is built with that id to
\* highlight, exactly one emitted node has that id, its kind is nodeType, it
\* carries the highlight border colour, border width 2 and the glow, and all
\* other nodes carry the base style of their kind.
C15_ResolverSoundness ==
    (built /\ resolved /\ ~resolution.isNull /\ highlightNodeId = SomeId(resolution.nodeId)) =>
      LET shade == IF isDark THEN "dark" ELSE "light"
          lit   == {i \in 1..Len(graph.nodes) : graph.nodes[i].style.borderWidth = 2}
      IN  /\ \E i \in 1..Len(graph.nodes) :
                /\ graph.nodes[i].id = resolution.nodeId
                /\ graph.nodes[i].data.type = resolution.nodeType
          /\ Cardinality(lit) = 1
          /\ \A i \in 1..Len(graph.nodes) :
                LET n == graph.nodes[i]
                IN  IF i \in lit
                    THEN /\ n.id = resolution.nodeId
                         /\ n.data.type = resolution.nodeType
                         /\ n.style.borderColor = HIGHLIGHT_STYLE[shade].borderColor
                         /\ n.style.boxShadow = "0 0 0 6px " \o HIGHLIGHT_STYLE[shade].glow
                    ELSE /\ n.style.borderColor = NODE_STYLE_TOKENS[n.data.type][shade].border
                         /\ n.style.borderWidth = 1
                         /\ n.style.boxShadow = "none"

\* C16: the shell's search/highlight invariant.  searchResult is "match"
\* exactly when highlightNodeId is not null, and a highlightNodeId that is not
\* null is the id of a node of the displayed graph.
C16_SearchHighlight ==
    /\ (searchResult = "match") <=> ~highlightNodeId.isNull
    /\ ~highlightNodeId.isNull =>
          \E i \in 1..Len(shownGraph.nodes) : shownGraph.nodes[i].id = highlightNodeId.id

\* C16, the events: a submit of the JSON form clears the highlight, and the
\* theme toggle and an edit of the JSON text leave highlightNodeId,
\* searchResult and parsedJson as they are.
C16_EventsPreserve ==
    [][/\ handleSubmit => highlightNodeId' = NoId
       /\ (onToggle \/ handleJsonChange) =>
             UNCHANGED <<highlightNodeId, searchResult, parsedJson>>]_vars

\* C17: every parsed document is displayed and searchable.  While no parse
\* error is shown, the displayed graph is buildFlowGraph of the document, a
\* bare primitive is displayed as the single node "root", and the search
\* result is never "no-tree".
C17_ParsedDisplayed ==
    parseError.isNull =>
      /\ shownGraph = buildFlowGraph(parsedJson, themeIsDark, highlightNodeId)
      /\ ~IsContainer(parsedJson) =>
            /\ Len(shownGraph.nodes) = 1
            /\ shownGraph.nodes[1].id = ROOT
      /\ searchResult # "no-tree"

=============================================================================
